---- MODULE Spec2Model ----
(***************************************************************************)
(* A model of circfile, the host-side client of a CircuitPython device's   *)
(* web workflow (src/circfile/backends.py, command_utils.py, commands.py). *)
(*                                                                         *)
(* Strings are sequences of tokens: the separator "/" is a token of its    *)
(* own, a file or directory name is a token, and so are the password and   *)
(* the host.  Concatenation (+, f-strings) is \o.  Names are URL-safe: no  *)
(* name holds "/", "?", "#", ":" or "%".                                   *)
(***************************************************************************)
EXTENDS Integers, Sequences, FiniteSets, TLC

\* ------------------------------------------------------------------ bounds
\* The largest number of entries (files and directories) of a local tree.
MaxEntries == 3
\* The largest web_api_version a device reports.
MaxVersion == 5
\* The largest number of free blocks a device reports.
MaxFree == 2
\* The largest number of entries of a directory listing.
MaxListing == 3
\* The largest number of bytes of an uploaded file.
MaxBytes == 2
\* the depth of the local directories whose remote paths are built on their own
MaxDepth == 2
\* the number of segments of a name given to get_file_path
MaxSegs == 3

\* ------------------------------------------------------------- strings
SEP == "/"
None == "None"

Range(s) == {s[i] : i \in 1..Len(s)}

Last(s) == s[Len(s)]

\* s[:-1]
ButLast(s) == SubSeq(s, 1, Len(s) - 1)

\* str.split("/"): the segments between separators, each a token sequence
\* (the empty segment is <<>>).
RECURSIVE Split(_)
Split(s) ==
    IF \A i \in 1..Len(s) : s[i] # SEP
    THEN <<s>>
    ELSE LET k == CHOOSE i \in 1..Len(s) :
                     /\ s[i] = SEP
                     /\ \A j \in 1..(i - 1) : s[j] # SEP
         IN  <<SubSeq(s, 1, k - 1)>> \o Split(SubSeq(s, k + 1, Len(s)))

\* "/".join(segments)
RECURSIVE JoinSegs(_)
JoinSegs(segs) ==
    IF Len(segs) = 0 THEN <<>>
    ELSE IF Len(segs) = 1 THEN segs[1]
    ELSE segs[1] \o <<SEP>> \o JoinSegs(Tail(segs))

\* filter(None, segs): the non-empty segments, in order
RECURSIVE FilterNonEmpty(_)
FilterNonEmpty(segs) ==
    IF Len(segs) = 0 THEN <<>>
    ELSE IF Head(segs) = <<>> THEN FilterNonEmpty(Tail(segs))
    ELSE <<Head(segs)>> \o FilterNonEmpty(Tail(segs))

\* the loop of urljoin that resolves "." and ".." segments
RECURSIVE Resolve(_, _)
Resolve(segs, acc) ==
    IF Len(segs) = 0 THEN acc
    ELSE LET seg == Head(segs)
         IN  IF seg = <<"..">>
             THEN Resolve(Tail(segs), IF Len(acc) = 0 THEN acc ELSE ButLast(acc))
             ELSE IF seg = <<".">>
             THEN Resolve(Tail(segs), acc)
             ELSE Resolve(Tail(segs), Append(acc, seg))

\* A device URL is the four tokens of scheme and authority,
\* "http://:" password "@" host, followed by the path.
AuthLen == 4
Authority(u) == SubSeq(u, 1, AuthLen)
PathOf(u) == SubSeq(u, AuthLen + 1, Len(u))

\* urllib.parse.urljoin(base, url, allow_fragments=False) for a base that is
\* a device URL and a url that is a path reference.
urljoin(base, url) ==
    IF Len(url) = 0 THEN base
    ELSE
    LET bpath == PathOf(base)
        base_parts0 == Split(bpath)
        base_parts == IF Last(base_parts0) # <<>> THEN ButLast(base_parts0)
                      ELSE base_parts0
        segments ==
            IF url[1] = SEP THEN Split(url)
            ELSE LET all == base_parts \o Split(url)
                 IN  IF Len(all) <= 2 THEN all
                     ELSE <<all[1]>>
                          \o FilterNonEmpty(SubSeq(all, 2, Len(all) - 1))
                          \o <<Last(all)>>
        resolved0 == Resolve(segments, <<>>)
        resolved == IF Last(segments) \in {<<".">>, <<"..">>}
                    THEN Append(resolved0, <<>>) ELSE resolved0
        joined == JoinSegs(resolved)
        \* urlunparse: a path under an authority starts with a separator
        path == IF joined = <<>> THEN <<SEP>>
                ELSE IF joined[1] # SEP THEN <<SEP>> \o joined
                ELSE joined
    IN  Authority(base) \o path

\* ----------------------------------------------------------- local trees
Names == {"a", "b"}

\* An entry of the tree under the source directory: its path relative to the
\* source (a sequence of names), whether it is a directory, and its bytes.
FileBytes == <<1>>
EntryOf(p, d) == [path |-> p, dir |-> d, data |-> IF d THEN <<>> ELSE FileBytes]

\* The entries that may be added to tree t: a new name at the top or in one of
\* t's directories.
Extensions(t) ==
    {EntryOf(par \o <<n>>, d) :
        par \in {<<>>} \cup {e.path : e \in {x \in t : x.dir}},
        n \in Names, d \in BOOLEAN}

RECURSIVE TreesOfSize(_)
TreesOfSize(k) ==
    IF k = 0 THEN {{}}
    ELSE UNION {{t \cup {e} : e \in {x \in Extensions(t) :
                                       \A y \in t : y.path # x.path}} :
                t \in TreesOfSize(k - 1)}

Trees == UNION {TreesOfSize(k) : k \in 0..MaxEntries}

\* os.walk's (dirs, files) of the directory at relative path r
DirsAt(t, r) == {Last(e.path) : e \in {x \in t : x.dir /\ ButLast(x.path) = r}}
FilesAt(t, r) == {Last(e.path) : e \in {x \in t : ~x.dir /\ ButLast(x.path) = r}}
DataAt(t, p) == (CHOOSE e \in t : e.path = p).data

\* ------------------------------------------------------------------ state
VARIABLES
    host,        \* WebBackend.host
    password,    \* WebBackend.password
    op,          \* the operation the caller invoked ("idle" before the call)
    pc,          \* the position of the running operation
    source,      \* install_file_http / install_dir_http: the source argument
    location,    \* install_file_http / install_dir_http: the location argument
    isdir,       \* whether the source path is a local directory
    tree,        \* the local tree under a source directory
    data,        \* the bytes of a source file
    req_url,     \* the url of a single-request operation (library_path, module_path)
    target,      \* install_dir_http: target
    root,        \* os.walk: the directory being visited, relative to source
    dirs_todo,   \* the dirs of root whose create request is still to come
    dirs_done,   \* the dirs of root in the order os.walk listed them
    files_todo,  \* the files of root still to write
    stack,       \* os.walk: the directories still to visit
    log,         \* the requests sent so far, each with the status answered
    remote,      \* the device's filesystem
    remote0,     \* the device's filesystem when the operation began
    echoed,      \* what click.secho / click.echo / print displayed
    logged,      \* what went to the logger
    args,        \* the arguments of a command (main, get, ls)
    resp,        \* the answer to the read request of the running operation
    ret,         \* what the operation returned
    written      \* the local files download_file wrote

vars == <<host, password, op, pc, source, location, isdir, tree, data, req_url,
          target, root, dirs_todo, dirs_done, files_todo, stack, log, remote,
          remote0, echoed, logged, args, resp, ret, written>>

\* ---------------------------------------------------------- the endpoint
device_location == <<"http://:", password, "@", host>>
FS_PATH == <<"fs", SEP>>
LIB_DIR_PATH == FS_PATH \o <<"lib", SEP>>
FS_URL == urljoin(device_location, FS_PATH)

\* ---------------------------------------------------------- the device
\* The statuses the device refuses a write or a delete with: the parent is
\* missing, the filesystem is not writable by the device, an internal error.
Failures == {404, 409, 500}

\* PUT /fs/<path>: a directory when the path ends in a separator, else a file
\* holding the body; an entry at the same path is replaced.
DevicePut(fs, path, body) ==
    {e \in fs : e.path # path}
        \cup {[path |-> path, dir |-> Last(path) = SEP, data |-> body]}

IsPrefix(p, q) == Len(p) <= Len(q) /\ SubSeq(q, 1, Len(p)) = p

\* DELETE /fs/<path>: the entry and, for a directory, everything below it.
DeviceDelete(fs, path) ==
    {e \in fs : ~(e.path = path \/ (Last(path) = SEP /\ IsPrefix(path, e.path)))}

\* The statuses the device may answer a request with: a refusal, or the success
\* status, 201 for a PUT that created the entry and 204 for a PUT that replaced
\* one and for a DELETE.
Statuses(fs, method, url) ==
    Failures \cup
        {IF method = "PUT" /\ \A e \in fs : e.path # PathOf(url) THEN 201 ELSE 204}

\* ------------------------------------------------------ response handling
\* Response.raise_for_status(): HTTPError for a 4xx or 5xx status
raise_for_status(status) == 400 <= status /\ status < 600

NotWritableMsg == <<"CircuitPython Web Workflow Device not writable\n - ",
                    "Remount storage as writable to device (not PC)">>

\* Outcome with a 409 left to raise_for_status
Outcome_no_conflict(status) == IF raise_for_status(status) THEN "raised" ELSE "ok"

\* if r.status_code == 409: _writeable_error()
\* r.raise_for_status()
\* "exit": sys.exit(1) after the message; "raised": HTTPError; "ok": goes on.
Outcome(status) ==
    IF status = 409 THEN "exit"
    ELSE IF raise_for_status(status) THEN "raised"
    ELSE "ok"

\* _writeable_error()'s message, displayed on a 409 only
writeable_error(status) ==
    IF Outcome(status) = "exit" THEN Append(echoed, NotWritableMsg) ELSE echoed

Request(method, url, body, status) ==
    [method |-> method, url |-> url, body |-> body, auth |-> password,
     status |-> status]

\* The device after answering a request with a status: only a success changes it.
DeviceAfter(method, url, body, status) ==
    IF Outcome(status) # "ok" THEN remote
    ELSE IF method = "PUT" THEN DevicePut(remote, PathOf(url), body)
    ELSE DeviceDelete(remote, PathOf(url))

\* Send with a refused request sent a second time before the operation ends
Send_retry(method, url, body, status, next) ==
    /\ log' = IF Outcome(status) = "ok"
              THEN Append(log, Request(method, url, body, status))
              ELSE log \o <<Request(method, url, body, status),
                            Request(method, url, body, status)>>
    /\ remote' = DeviceAfter(method, url, body, status)
    /\ echoed' = writeable_error(status)
    /\ pc' = IF Outcome(status) = "ok" THEN next ELSE Outcome(status)

\* One request of an operation: sent, answered, the answer handled.
\* next is the position the operation goes on to after a success.
Send(method, url, body, status, next) ==
    /\ log' = Append(log, Request(method, url, body, status))
    /\ remote' = DeviceAfter(method, url, body, status)
    /\ echoed' = writeable_error(status)
    /\ pc' = IF Outcome(status) = "ok" THEN next ELSE Outcome(status)

\* ------------------------------------------------------------ path building
\* file_name = source.split(os.path.sep);
\* file_name[-2] if file_name[-1] == "" else file_name[-1]
base_name(src) ==
    LET parts == Split(src)
    IN  IF Last(parts) = <<>> THEN parts[Len(parts) - 1] ELSE Last(parts)

\* the target of install_file_http, and of install_dir_http before the
\* trailing separator is added
install_target(src, loc) ==
    IF loc = None
    THEN device_location \o <<SEP>> \o LIB_DIR_PATH \o base_name(src)
    ELSE device_location \o <<SEP>> \o FS_PATH \o loc \o base_name(src)

\* target + "/" if target[:-1] != "/" else target
with_sep(t) == IF ButLast(t) # <<SEP>> THEN t \o <<SEP>> ELSE t

dir_target(src, loc) == with_sep(install_target(src, loc))

\* os.path.relpath(root, source), "" for the source itself
rel_path(r) == JoinSegs([i \in 1..Len(r) |-> <<r[i]>>])

\* install_dir_http: path_to_create for a name in the directory at r
path_to_create(tgt, r, name) ==
    IF rel_path(r) # <<>>
    THEN urljoin(urljoin(tgt, rel_path(r) \o <<SEP>>), <<name>>)
    ELSE urljoin(tgt, <<name>>)

dir_to_create(tgt, r, name) == with_sep(path_to_create(tgt, r, name))

\* ------------------------------------------------------------- the inputs
Sources == {<<"mod">>, <<"src", SEP, "mod", SEP>>}
FileSources == {<<"mod">>, <<"src", SEP, "mod">>}
Locations == {None, <<"data", SEP>>, <<"data">>}
LibraryUrl == device_location \o <<SEP>> \o LIB_DIR_PATH
ModuleUrls == {LibraryUrl \o <<"mod", SEP>>, LibraryUrl \o <<"mod.py">>}

\* What the device may hold before the operation: nothing, or an earlier
\* install of the module.
OldModule ==
    {[path |-> PathOf(LibraryUrl) \o <<"mod", SEP>>, dir |-> TRUE, data |-> <<>>],
     [path |-> PathOf(LibraryUrl) \o <<"mod", SEP, "old">>, dir |-> FALSE,
      data |-> <<9>>]}
RemoteInits == {{}, OldModule}

NoArgs == [cmd |-> "none"]
NoResp == [kind |-> "none"]
NoRet == [kind |-> "none"]
Returned(v) == [kind |-> "value", val |-> v]

\* no operation called yet
Idle ==
    /\ op = "idle"
    /\ pc = "idle"
    /\ source = <<>>
    /\ location = None
    /\ req_url = <<>>
    /\ target = <<>>
    /\ root = <<>>
    /\ dirs_todo = {}
    /\ dirs_done = <<>>
    /\ files_todo = {}
    /\ stack = <<>>
    /\ log = <<>>
    /\ echoed = <<>>
    /\ logged = <<>>
    /\ args = NoArgs
    /\ resp = NoResp
    /\ ret = NoRet
    /\ written = {}

\* WebBackend.__init__ has stored the host and the password
Constructed ==
    /\ host = "cpy.local"
    /\ password = "passw0rd"

\* The uploads, deletes and updates: any local tree or file, a device that is
\* empty or holds an earlier install.
Init ==
    /\ Constructed
    /\ Idle
    /\ isdir \in BOOLEAN
    /\ tree \in Trees
    /\ (~isdir => tree = {})
    /\ data = IF isdir THEN <<>> ELSE FileBytes
    /\ remote \in RemoteInits
    /\ remote0 = remote

walk_vars == <<target, root, dirs_todo, dirs_done, files_todo, stack>>
local_vars == <<host, password, isdir, tree, data, remote0>>
read_vars == <<logged, args, resp, ret, written>>

\* ------------------------------------------------------------- the calls
\* The caller invokes install_file_http(source, location) on a local file.
call_install_file_http ==
    /\ pc = "idle" /\ ~isdir
    /\ \E src \in FileSources, loc \in Locations :
        /\ source' = src
        /\ location' = loc
    /\ op' = "install_file_http"
    /\ pc' = "install_file_http"
    /\ UNCHANGED <<local_vars, read_vars, walk_vars, req_url, log, remote, echoed>>

\* The caller invokes install_dir_http(source, location) on a local directory.
call_install_dir_http ==
    /\ pc = "idle" /\ isdir
    /\ \E src \in Sources, loc \in Locations :
        /\ source' = src
        /\ location' = loc
    /\ op' = "install_dir_http"
    /\ pc' = "install_dir_http"
    /\ UNCHANGED <<local_vars, read_vars, walk_vars, req_url, log, remote, echoed>>

\* The caller invokes _create_library_directory(device_path, library_path).
call_create_library_directory ==
    /\ pc = "idle"
    /\ req_url' = LibraryUrl
    /\ op' = "create_library_directory"
    /\ pc' = "create_library_directory"
    /\ UNCHANGED <<local_vars, read_vars, walk_vars, source, location, log, remote, echoed>>

\* WebBackend.upload_file(target_file, location_to_paste).  A directory with
\* location_to_paste None ends in the TypeError of "/".join before any request.
upload_file ==
    /\ pc = "idle"
    /\ \E target_file \in FileSources,
          location_to_paste \in {None, <<"lib">>, <<"data">>} :
        /\ source' = target_file
        /\ location' = None
        /\ args' = [cmd |-> "upload_file", target_file |-> target_file,
                    location_to_paste |-> location_to_paste]
        /\ IF isdir
           THEN IF location_to_paste = None
                THEN /\ req_url' = req_url
                     /\ pc' = "TypeError"
                ELSE /\ req_url' = urljoin(device_location,
                             JoinSegs(<<<<"fs">>, location_to_paste, target_file, <<>>>>))
                     /\ pc' = "create_library_directory"
           ELSE /\ req_url' = req_url
                /\ pc' = "install_file_http"
    /\ op' = "upload_file"
    /\ UNCHANGED <<local_vars, logged, resp, ret, written, walk_vars, log, remote,
                   echoed>>

\* WebBackend.uninstall(device_path, module_path): the one delete request
uninstall ==
    /\ pc = "idle"
    /\ \E module_path \in ModuleUrls :
        /\ req_url' = module_path
        /\ \E status \in Statuses(remote, "DELETE", module_path) :
            Send("DELETE", module_path, <<>>, status, "done")
    /\ op' = "uninstall"
    /\ UNCHANGED <<local_vars, read_vars, walk_vars, source, location>>

\* WebBackend.update(module) -> _update_http(module): module.file is ~isdir,
\* module.bundle_path the source, module.path the module's url on the device
update ==
    /\ pc = "idle"
    /\ \E bundle_path \in IF isdir THEN Sources ELSE FileSources :
        /\ source' = bundle_path
        /\ location' = None
        /\ req_url' = IF isdir THEN LibraryUrl \o base_name(bundle_path) \o <<SEP>>
                      ELSE req_url
    /\ op' = "update"
    /\ pc' = IF isdir THEN "update_delete" ELSE "install_file_http"
    /\ UNCHANGED <<local_vars, read_vars, walk_vars, log, remote, echoed>>

\* ------------------------------------------------------------ the requests
\* install_file_http: the write of the file
install_file_http ==
    /\ pc = "install_file_http"
    /\ \E status \in Statuses(remote, "PUT", install_target(source, location)) :
        Send("PUT", install_target(source, location), data, status, "done")
    /\ UNCHANGED <<local_vars, read_vars, walk_vars, op, source, location, req_url>>

\* _create_library_directory: the create request; upload_file goes on to
\* install_dir_http(target_file)
create_library_directory ==
    /\ pc = "create_library_directory"
    /\ \E status \in Statuses(remote, "PUT", req_url) :
        Send("PUT", req_url, <<>>, status,
             IF op = "upload_file" THEN "install_dir_http" ELSE "done")
    /\ UNCHANGED <<local_vars, read_vars, walk_vars, op, source, location, req_url>>

\* update_delete going on to the upload whatever the delete was answered
update_delete_unchecked ==
    /\ pc = "update_delete"
    /\ \E status \in Statuses(remote, "DELETE", req_url) :
        /\ log' = Append(log, Request("DELETE", req_url, <<>>, status))
        /\ remote' = DeviceAfter("DELETE", req_url, <<>>, status)
        /\ echoed' = echoed
        /\ pc' = "install_dir_http"
    /\ UNCHANGED <<local_vars, read_vars, walk_vars, op, source, location, req_url>>

\* _update_http: the recursive delete, then install_dir_http(module.bundle_path)
update_delete ==
    /\ pc = "update_delete"
    /\ \E status \in Statuses(remote, "DELETE", req_url) :
        Send("DELETE", req_url, <<>>, status, "install_dir_http")
    /\ UNCHANGED <<local_vars, read_vars, walk_vars, op, source, location, req_url>>

\* install_dir_http: the top level directory, then os.walk yields the source
install_dir_http ==
    /\ pc = "install_dir_http"
    /\ target' = dir_target(source, location)
    /\ \E status \in Statuses(remote, "PUT", target') :
        Send("PUT", target', <<>>, status, "walk")
    /\ root' = <<>>
    /\ dirs_todo' = DirsAt(tree, <<>>)
    /\ dirs_done' = <<>>
    /\ files_todo' = FilesAt(tree, <<>>)
    /\ stack' = <<>>
    /\ UNCHANGED <<local_vars, read_vars, op, source, location, req_url>>

\* for name in dirs: the create request of one subdirectory of root, in the
\* order the operating system lists them
walk_dir ==
    /\ pc = "walk" /\ dirs_todo # {}
    /\ \E name \in dirs_todo :
        /\ \E status \in Statuses(remote, "PUT", dir_to_create(target, root, name)) :
            Send("PUT", dir_to_create(target, root, name), <<>>, status, "walk")
        /\ dirs_todo' = dirs_todo \ {name}
        /\ dirs_done' = Append(dirs_done, name)
    /\ UNCHANGED <<local_vars, read_vars, op, source, location, req_url, target, root,
                   files_todo, stack>>

\* walk_file with the two loops of install_dir_http in no fixed order
walk_file_any_order ==
    /\ pc = "walk" /\ files_todo # {}
    /\ \E name \in files_todo :
        /\ \E status \in Statuses(remote, "PUT", path_to_create(target, root, name)) :
            Send("PUT", path_to_create(target, root, name),
                 DataAt(tree, Append(root, name)), status, "walk")
        /\ files_todo' = files_todo \ {name}
    /\ UNCHANGED <<local_vars, read_vars, op, source, location, req_url, target, root,
                   dirs_todo, dirs_done, stack>>

\* for name in files: the write of one file of root
walk_file ==
    /\ pc = "walk" /\ dirs_todo = {} /\ files_todo # {}
    /\ \E name \in files_todo :
        /\ \E status \in Statuses(remote, "PUT", path_to_create(target, root, name)) :
            Send("PUT", path_to_create(target, root, name),
                 DataAt(tree, Append(root, name)), status, "walk")
        /\ files_todo' = files_todo \ {name}
    /\ UNCHANGED <<local_vars, read_vars, op, source, location, req_url, target, root,
                   dirs_todo, dirs_done, stack>>

\* os.walk goes on: top-down, into the subdirectories of root in their listed
\* order before the directories that were waiting; the walk ends when none is left
walk_next ==
    /\ pc = "walk" /\ dirs_todo = {} /\ files_todo = {}
    /\ LET todo == [i \in 1..Len(dirs_done) |-> Append(root, dirs_done[i])] \o stack
       IN  IF todo = <<>>
           THEN /\ pc' = "done"
                /\ UNCHANGED <<root, dirs_todo, dirs_done, files_todo, stack>>
           ELSE /\ pc' = "walk"
                /\ root' = Head(todo)
                /\ stack' = Tail(todo)
                /\ dirs_todo' = DirsAt(tree, Head(todo))
                /\ dirs_done' = <<>>
                /\ files_todo' = FilesAt(tree, Head(todo))
    /\ UNCHANGED <<local_vars, read_vars, op, source, location, req_url, target, log,
                   remote, echoed>>

Next ==
    \/ call_install_file_http
    \/ call_install_dir_http
    \/ call_create_library_directory
    \/ upload_file
    \/ uninstall
    \/ update
    \/ install_file_http
    \/ create_library_directory
    \/ update_delete
    \/ install_dir_http
    \/ walk_dir
    \/ walk_file
    \/ walk_next

Spec == Init /\ [][Next]_vars

\* =========================================================== the probes
\* The answers to a read request: no connection, or a response with a status
\* and a JSON object, of which present holds the keys it has.
ReadStatuses == {200, 404, 500}

ConnectionError == [kind |-> "ConnectionError"]

Response(status, json) == [kind |-> "response", status |-> status, json |-> json]

\* GET /cp/version.json
VersionObjects ==
    {[present |-> {}, web_api_version |-> 0]}
        \cup {[present |-> {"web_api_version"}, web_api_version |-> v] :
                v \in 0..MaxVersion}

VersionAnswers ==
    {ConnectionError} \cup {Response(st, j) : st \in ReadStatuses, j \in VersionObjects}

\* .get(key) is None
IsNone(json, key) == key \notin json.present

UnableVersionMsg == <<"Unable to get web API version from device.">>
UnsupportedVersionMsg(v) ==
    <<"Device running unsupported web API version ", ToString(v), " < 4.">>

\* is_device_present with every requests exception caught
device_present_catch_all(r) ==
    IF r.kind = "ConnectionError" THEN "False"
    ELSE IF raise_for_status(r.status) THEN "False"
    ELSE IF IsNone(r.json, "web_api_version") THEN "False"
    ELSE IF r.json.web_api_version < 4 THEN "False"
    ELSE "True"

\* is_device_present with the comparison web_api_version <= 4
device_present_off_by_one(r) ==
    IF r.kind = "ConnectionError" THEN "False"
    ELSE IF raise_for_status(r.status) THEN "HTTPError"
    ELSE IF IsNone(r.json, "web_api_version") THEN "False"
    ELSE IF r.json.web_api_version <= 4 THEN "False"
    ELSE "True"

\* How is_device_present ends on an answer: "True" or "False" returned, or
\* "HTTPError" raised by raise_for_status, which the except clause for
\* requests.exceptions.ConnectionError does not catch.
device_present(r) ==
    IF r.kind = "ConnectionError" THEN "False"
    ELSE IF raise_for_status(r.status) THEN "HTTPError"
    ELSE IF IsNone(r.json, "web_api_version") THEN "False"
    ELSE IF r.json.web_api_version < 4 THEN "False"
    ELSE "True"

\* what is_device_present logs and displays on an answer
device_present_message(r) ==
    IF r.kind = "ConnectionError" \/ raise_for_status(r.status) THEN <<>>
    ELSE IF IsNone(r.json, "web_api_version") THEN <<UnableVersionMsg>>
    ELSE IF r.json.web_api_version < 4
    THEN <<UnsupportedVersionMsg(r.json.web_api_version)>>
    ELSE <<>>

\* the log entry of a read request; a failed connection has no status
ReadRequest(url, r) ==
    Request("GET", url, <<>>, IF r.kind = "response" THEN r.status ELSE 0)

\* WebBackend.is_device_present()
is_device_present ==
    /\ pc = "idle"
    /\ op' = "is_device_present"
    /\ \E r \in VersionAnswers :
        /\ resp' = r
        /\ log' = Append(log, ReadRequest(
                     device_location \o <<SEP, "cp", SEP, "version.json">>, r))
        /\ logged' = logged \o device_present_message(r)
        /\ echoed' = echoed \o device_present_message(r)
        /\ IF device_present(r) = "HTTPError"
           THEN pc' = "raised" /\ ret' = NoRet
           ELSE pc' = "returned" /\ ret' = Returned(device_present(r) = "True")
    /\ UNCHANGED <<local_vars, walk_vars, source, location, req_url, remote,
                   args, written>>

\* GET /fs/ with Accept: application/json
BlockSizes == {1, 512}

ListingObjects ==
    {[present |-> K,
      free |-> IF "free" \in K THEN f ELSE 0,
      block_size |-> IF "block_size" \in K THEN b ELSE 0,
      writable |-> IF "writable" \in K THEN w ELSE FALSE] :
        K \in SUBSET {"free", "block_size", "writable"},
        f \in 0..MaxFree, b \in BlockSizes, w \in BOOLEAN}

ListingAnswers == {Response(st, j) : st \in ReadStatuses, j \in ListingObjects}

UnableFreeMsg == <<"Unable to get free block count from device.">>
UnableBlockSizeMsg == <<"Unable to get block size from device.">>

\* free_space with the fields tested for truth instead of for None
free_space_truthy(r) ==
    IF raise_for_status(r.status) THEN "HTTPError"
    ELSE IF IsNone(r.json, "free") \/ r.json.free = 0 THEN "no_free"
    ELSE IF IsNone(r.json, "block_size") \/ r.json.block_size = 0 THEN "no_block_size"
    ELSE IF IsNone(r.json, "writable") \/ r.json.writable = FALSE
    THEN "not_writable"
    ELSE "value"

\* The branch get_free_space takes on a response.
free_space(r) ==
    IF raise_for_status(r.status) THEN "HTTPError"
    ELSE IF IsNone(r.json, "free") THEN "no_free"
    ELSE IF IsNone(r.json, "block_size") THEN "no_block_size"
    ELSE IF IsNone(r.json, "writable") \/ r.json.writable = FALSE
    THEN "not_writable"
    ELSE "value"

\* what get_free_space logs and displays in a branch
free_space_message(branch) ==
    IF branch = "no_free" THEN <<UnableFreeMsg>>
    ELSE IF branch = "no_block_size" THEN <<UnableBlockSizeMsg>>
    ELSE IF branch = "not_writable" THEN <<NotWritableMsg>>
    ELSE <<>>

\* WebBackend.get_free_space(): the value, an HTTPError, or sys.exit(1)
get_free_space ==
    /\ pc = "idle"
    /\ op' = "get_free_space"
    /\ \E r \in ListingAnswers :
        /\ resp' = r
        /\ log' = Append(log, ReadRequest(urljoin(device_location, FS_PATH), r))
        /\ logged' = logged \o free_space_message(free_space(r))
        /\ echoed' = echoed \o free_space_message(free_space(r))
        /\ IF free_space(r) = "value"
           THEN pc' = "returned" /\ ret' = Returned(r.json.free * r.json.block_size)
           ELSE IF free_space(r) = "HTTPError"
           THEN pc' = "raised" /\ ret' = NoRet
           ELSE pc' = "exit" /\ ret' = NoRet
    /\ UNCHANGED <<local_vars, walk_vars, source, location, req_url, remote,
                   args, written>>

InitProbe ==
    /\ Constructed
    /\ Idle
    /\ isdir = FALSE
    /\ tree = {}
    /\ data = <<>>
    /\ remote \in RemoteInits
    /\ remote0 = remote

NextProbe ==
    \/ is_device_present
    \/ get_free_space

SpecProbe == InitProbe /\ [][NextProbe]_vars

\* ========================================================== the listing
\* A name of a listing is a string of code points: "A" is <<65>>, "a" is
\* <<97>>, "b" is <<98>>, "ab" is <<97, 98>>.
ListNames == {<<65>>, <<97>>, <<98>>, <<97, 98>>}

\* an entry of the "files" array of a directory listing
ListEntries ==
    [name : ListNames, directory : BOOLEAN, file_size : {0, 7}]

\* r.json()["files"]: the entries in the order the device reports them
Listings == UNION {[1..n -> ListEntries] : n \in 0..MaxListing}

\* Python's < on str: by code point, a proper prefix first
str_less(a, b) ==
    \E k \in 1..(Len(a) + 1) :
        /\ k <= Len(b)
        /\ \A i \in 1..(k - 1) : a[i] = b[i]
        /\ (k = Len(a) + 1 \/ a[k] < b[k])

\* sorted(keys): the keys in ascending order
RECURSIVE sorted(_)
sorted(keys) ==
    IF keys = {} THEN <<>>
    ELSE LET least == CHOOSE x \in keys : \A y \in keys \ {x} : str_less(x, y)
         IN  <<least>> \o sorted(keys \ {least})

\* the dict the loop of sorted_by_directory_then_alpha fills with the entries
\* whose directory flag is d: a later entry replaces an earlier one of the
\* same name
dict_of(list_of_files, d) ==
    LET at(n) == {i \in 1..Len(list_of_files) :
                    list_of_files[i].name = n /\ list_of_files[i].directory = d}
        keys == {n \in ListNames : at(n) # {}}
    IN  [n \in keys |->
            list_of_files[CHOOSE i \in at(n) : \A j \in at(n) : j <= i]]

\* sorted_by_directory_then_alpha with the files appended first
sorted_files_first(list_of_files) ==
    LET dirs == dict_of(list_of_files, TRUE)
        files == dict_of(list_of_files, FALSE)
        sorted_dir_names == sorted(DOMAIN dirs)
        sorted_file_names == sorted(DOMAIN files)
    IN  [i \in 1..Len(sorted_file_names) |-> files[sorted_file_names[i]]]
        \o [i \in 1..Len(sorted_dir_names) |-> dirs[sorted_dir_names[i]]]

sorted_by_directory_then_alpha(list_of_files) ==
    LET dirs == dict_of(list_of_files, TRUE)
        files == dict_of(list_of_files, FALSE)
        sorted_dir_names == sorted(DOMAIN dirs)
        sorted_file_names == sorted(DOMAIN files)
    IN  [i \in 1..Len(sorted_dir_names) |-> dirs[sorted_dir_names[i]]]
        \o [i \in 1..Len(sorted_file_names) |-> files[sorted_file_names[i]]]

\* the line ls_cli displays for an entry
ls_line(cur_file) ==
    <<cur_file.file_size, "\t", cur_file.name,
      IF cur_file.directory THEN "/" ELSE "">>

\* ls_cli(ctx, file): the listing of the directory, sorted and displayed
ls_cli ==
    /\ pc = "idle"
    /\ op' = "ls"
    /\ \E files \in Listings :
        LET file == <<SEP>>
            shown == sorted_by_directory_then_alpha(files)
        IN  /\ args' = [cmd |-> "ls", file |-> file]
            /\ logged' = Append(logged, <<"ls">>)
            /\ resp' = [kind |-> "response", status |-> 200, files |-> files]
            /\ log' = Append(log, Request("GET",
                         urljoin(device_location, <<"fs", SEP>> \o file), <<>>, 200))
            /\ ret' = Returned(shown)
            /\ echoed' = echoed
                  \o <<<<"running: ls ">> \o file, <<"r.content">>, <<"Size\tName">>>>
                  \o [i \in 1..Len(shown) |-> ls_line(shown[i])]
    /\ pc' = "done"
    /\ UNCHANGED <<local_vars, walk_vars, source, location, req_url, remote,
                   written>>

InitListing ==
    /\ Constructed
    /\ Idle
    /\ isdir = FALSE
    /\ tree = {}
    /\ data = <<>>
    /\ remote = {}
    /\ remote0 = {}

NextListing == ls_cli

SpecListing == InitListing /\ [][NextListing]_vars

\* ========================================================= the download
Bytes == {0, 255}
Contents == UNION {[1..n -> Bytes] : n \in 0..MaxBytes}

\* the remote names a caller asks for
DownloadTargets ==
    {<<"mod">>, <<"lib", SEP, "mod">>, <<"data", SEP, "mod">>,
     <<"lib", SEP, "mod", SEP, "old">>}
LocalDirs == {None, <<"out">>}

\* GET /fs/<path>: the bytes of the file, 404 when the device holds no file
\* there, 500 on an internal error
DeviceGet(fs, path) ==
    {[status |-> 500, content |-> <<>>]} \cup
    IF \E e \in fs : e.path = path /\ ~e.dir
    THEN {[status |-> 200, content |-> e.data] : e \in {x \in fs : x.path = path}}
    ELSE {[status |-> 404, content |-> <<>>]}

\* download_url with only the last segment of the remote name
download_url_no_dir(target_file) == FS_URL \o Last(Split(target_file))

\* self.FS_URL + target_file
download_url(target_file) == FS_URL \o target_file

\* the local path download_file writes: the last segment of the remote name,
\* in the working directory or joined to location_to_paste
local_path(target_file, location_to_paste) ==
    LET file_name == Last(Split(target_file))
    IN  IF location_to_paste = None THEN file_name
        ELSE location_to_paste \o <<SEP>> \o file_name

\* The caller invokes download_file(target_file, location_to_paste).
call_download_file ==
    /\ pc \in {"idle", "done"}
    /\ \E target_file \in DownloadTargets, location_to_paste \in LocalDirs :
        args' = [cmd |-> "download_file", target_file |-> target_file,
                 location_to_paste |-> location_to_paste]
    /\ pc' = "download_file"
    /\ UNCHANGED <<local_vars, walk_vars, op, source, location, req_url, log,
                   remote, echoed, logged, resp, ret, written>>

\* get_cli(ctx, file, location)
get_cli ==
    /\ pc = "ready"
    /\ \E file \in DownloadTargets, loc \in LocalDirs :
        /\ args' = [cmd |-> "download_file", target_file |-> file,
                    location_to_paste |-> loc]
        /\ echoed' = Append(echoed, <<"running: get ">> \o file \o <<" ">> \o loc)
    /\ pc' = "download_file"
    /\ UNCHANGED <<local_vars, walk_vars, op, source, location, req_url, log,
                   remote, logged, resp, ret, written>>

\* WebBackend.download_file(target_file, location_to_paste).  On a 404,
\* click.secho(message, "red") takes "red" as its file argument and the write
\* to it raises AttributeError inside the with block: nothing is displayed and
\* nothing is written.  There is no raise_for_status: the body of any other
\* response is written.
download_file ==
    /\ pc = "download_file"
    /\ op' = "download_file"
    /\ \E r \in DeviceGet(remote, PathOf(download_url(args.target_file))) :
        /\ resp' = [kind |-> "response", status |-> r.status, content |-> r.content]
        /\ log' = Append(log, Request("GET", download_url(args.target_file),
                                      <<>>, r.status))
        /\ IF r.status = 404
           THEN /\ pc' = "raised"
                /\ UNCHANGED <<written, echoed>>
           ELSE LET path == local_path(args.target_file, args.location_to_paste)
                IN  /\ written' = {f \in written : f.path # path}
                                     \cup {[path |-> path, data |-> r.content]}
                    /\ echoed' = Append(echoed, <<"Downloaded File: ">> \o path)
                    /\ pc' = "downloaded"
    /\ UNCHANGED <<local_vars, walk_vars, source, location, req_url, remote,
                   logged, args, ret>>

\* A local file of any bytes, uploaded and then downloaded.
InitRoundTrip ==
    /\ Constructed
    /\ Idle
    /\ isdir = FALSE
    /\ tree = {}
    /\ data \in Contents
    /\ remote \in RemoteInits
    /\ remote0 = remote

NextRoundTrip ==
    \/ upload_file
    \/ call_install_file_http
    \/ install_file_http
    \/ call_download_file
    \/ download_file

SpecRoundTrip == InitRoundTrip /\ [][NextRoundTrip]_vars

\* ============================================================ the start
NoPassword == "<None>"
NoPath == <<"<None>">>
DefaultHost == "circuitpython.local"
DiscoveredHost == "cpy-1234.local"

\* the options of the command line and the environment of a run
Options ==
    [path : {NoPath, <<"/media/CIRCUITPY">>},
     host : {DefaultHost, "cpy.local"},
     password : {NoPassword, "passw0rd"},
     env_password : {NoPassword, "s3cret"},
     verbose : BOOLEAN,
     resolves : BOOLEAN,
     lookup_ok : BOOLEAN,
     subcommand : {"get", "show"}]

\* get_device_path(host, password, path): host always has a value, the
\* option's default if no other
get_device_path(h, pw, path) ==
    IF path # NoPath THEN path
    ELSE <<"http://:", pw, "@", h>>

\* str.replace(old, new) on the tokens of a string
replace(str, old, new) == [i \in 1..Len(str) |-> IF str[i] = old THEN new ELSE str[i]]

\* main(ctx, verbose, path, host, password, timeout): from the options to the
\* construction of the backend and the report of the device found
main ==
    /\ pc = "idle"
    /\ op' = "main"
    /\ \E o \in Options, r \in VersionAnswers :
        LET pw == IF o.password = NoPassword THEN o.env_password ELSE o.password
            device_path0 == get_device_path(o.host, pw, o.path)
            lookup == o.host = DefaultHost
            h == IF lookup THEN DiscoveredHost ELSE o.host
            device_path == IF lookup THEN replace(device_path0, DefaultHost, h)
                           ELSE device_path0
            shown1 == <<<<"host: ", o.host>>, <<"using webworkflow: ", "True">>>>
                      \o (IF lookup
                          THEN <<<<"Checking versions.json on circuitpython.local to find hostname">>,
                                 <<"Using hostname: ", h>>>>
                          ELSE <<>>)
            started == <<<<"### Started Circfile ###">>,
                         <<"Checking for a newer version of circfile">>>>
            release == <<<<"Requesting redirect information: ",
                           "https://github.com/adafruit/circuitpython/releases/latest">>,
                         <<"Tag: '", "latest", "'">>>>
            verbose_line == IF o.verbose THEN <<<<"Logging to ", "LOGFILE", "\n">>>>
                            ELSE <<>>
        IN  /\ args' = [cmd |-> "main", options |-> o, password |-> pw,
                        device_path |-> device_path]
            /\ resp' = IF /\ pw # NoPassword /\ o.resolves /\ o.subcommand # "show"
                          /\ (lookup => o.lookup_ok)
                       THEN r ELSE NoResp
            /\ IF lookup /\ ~o.lookup_ok
               THEN \* requests.get of circuitpython.local raises
                    /\ echoed' = echoed \o SubSeq(shown1, 1, 3)
                    /\ pc' = "raised"
                    /\ UNCHANGED <<host, password, logged>>
               ELSE IF pw = NoPassword
               THEN \* WebBackend.__init__ raises ValueError
                    /\ echoed' = echoed \o shown1 \o
                         <<<<"Must pass --password or set CIRCUP_WEBWORKFLOW_PASSWORD environment variable">>>>
                    /\ pc' = "exit"
                    /\ UNCHANGED <<host, password, logged>>
               ELSE IF ~o.resolves
               THEN \* WebBackend.__init__ raises RuntimeError
                    /\ echoed' = echoed \o shown1 \o
                         <<<<"Invalid host: ", h, ".",
                             "Could not find or connect to specified device">>>>
                    /\ pc' = "exit"
                    /\ UNCHANGED <<host, password, logged>>
               ELSE /\ host' = h
                    /\ password' = pw
                    /\ IF o.subcommand = "show"
                       THEN \* a command that needs no board
                            /\ echoed' = echoed \o shown1 \o verbose_line
                            /\ logged' = logged \o started
                            /\ pc' = "returned"
                       ELSE /\ logged' = logged \o started \o release
                                           \o device_present_message(r)
                            /\ IF device_present(r) = "HTTPError"
                               THEN /\ echoed' = echoed \o shown1 \o verbose_line
                                    /\ pc' = "raised"
                               ELSE IF device_present(r) = "False"
                               THEN /\ echoed' = echoed \o shown1 \o verbose_line
                                         \o device_present_message(r)
                                         \o <<<<"Could not find a connected CircuitPython device.">>>>
                                    /\ pc' = "exit"
                               ELSE /\ echoed' = echoed \o shown1 \o verbose_line
                                         \o <<<<"Found device at ">> \o device_path
                                               \o <<".">>>>
                                    /\ pc' = "ready"
    /\ UNCHANGED <<isdir, tree, data, remote0, walk_vars, source, location,
                   req_url, log, remote, ret, written>>

\* A run of the command line: nothing constructed yet.
InitMain ==
    /\ host = ""
    /\ password = NoPassword
    /\ Idle
    /\ isdir = FALSE
    /\ tree = {}
    /\ data = <<>>
    /\ remote \in RemoteInits
    /\ remote0 = remote

NextMain ==
    \/ main
    \/ get_cli
    \/ download_file

SpecMain == InitMain /\ [][NextMain]_vars

\* ================================================================ claims
IsSuccess(status) == 200 <= status /\ status < 300

Failed == pc \in {"exit", "raised"}

\* install_dir_http has sent its first request
InMirror == target # <<>>

\* the place in the log of install_dir_http's first request
MirrorStart == IF op = "install_dir_http" THEN 1 ELSE 2

\* C1: every write or delete request of every operation is handled alike: a
\* 409 ends the operation with the not-writable message and sys.exit, whatever
\* came before; any other non-success status ends it with an HTTPError; only
\* a success lets the operation go on.
C1_StatusDecidesOutcome ==
    /\ \A i \in 1..Len(log) :
        /\ log[i].status = 409 =>
            /\ i = Len(log)
            /\ pc = "exit"
            /\ echoed # <<>> /\ Last(echoed) = NotWritableMsg
        /\ (~IsSuccess(log[i].status) /\ log[i].status # 409) =>
            /\ i = Len(log)
            /\ pc = "raised"
            /\ echoed = <<>>
        /\ i < Len(log) => IsSuccess(log[i].status)
    /\ pc = "exit" => (log # <<>> /\ Last(log).status = 409)
    /\ pc = "raised" => (log # <<>> /\ ~IsSuccess(Last(log).status))
    /\ pc \in {"done", "walk"} => (log # <<>> /\ IsSuccess(Last(log).status))

\* a 409 after two requests of the same operation succeeded
C1_Witness ==
    /\ pc = "exit"
    /\ op = "update"
    /\ Len(log) >= 3
    /\ Last(log).status = 409

\* The device after the successful requests of reqs, in order.
RECURSIVE Replay(_, _)
Replay(fs, reqs) ==
    IF reqs = <<>> THEN fs
    ELSE LET r == Head(reqs)
             fs1 == IF ~IsSuccess(r.status) THEN fs
                    ELSE IF r.method = "PUT"
                         THEN DevicePut(fs, PathOf(r.url), r.body)
                         ELSE DeviceDelete(fs, PathOf(r.url))
         IN  Replay(fs1, Tail(reqs))

\* C2: in a directory mirror the first failed request is the last request:
\* nothing is sent after it, it is not sent again, no delete undoes the earlier
\* creates, and the device holds what the successful requests before it made.
C2_FirstFailureIsLast ==
    InMirror =>
        /\ \A i \in 1..Len(log) : ~IsSuccess(log[i].status) => i = Len(log)
        /\ \A i \in MirrorStart..Len(log) : log[i].method = "PUT"
        /\ \A i, j \in MirrorStart..Len(log) :
            (i < j /\ ~IsSuccess(log[j].status)) => log[i].url # log[j].url
        /\ Failed =>
            /\ remote = Replay(remote0, ButLast(log))
            /\ {e.path : e \in remote} =
                 {e.path : e \in Replay(remote0, SubSeq(log, 1, MirrorStart - 1))}
                    \cup {PathOf(log[i].url) : i \in MirrorStart..(Len(log) - 1)}

\* a mirror that failed below the top level after creating entries on the device
C2_Witness ==
    /\ InMirror /\ Failed
    /\ Len(log) >= MirrorStart + 2
    /\ remote # remote0
    /\ Len(root) >= 1

\* the url install_dir_http builds for an entry of the tree
UrlOf(e) ==
    IF e.dir THEN dir_to_create(target, ButLast(e.path), Last(e.path))
    ELSE path_to_create(target, ButLast(e.path), Last(e.path))

\* C3: at every level of the tree the create requests of all its
\* subdirectories come before any file write of the level and before any
\* request for an entry below one of them; so every request for an entry comes
\* after the successful create request of its parent directory.
C3_DirectoriesFirst ==
    InMirror =>
        LET \* the places in the log of the mirror's requests for each entry
            sent == [e \in tree |->
                       LET u == UrlOf(e)
                       IN  {i \in (MirrorStart + 1)..Len(log) : log[i].url = u}]
            Before(e1, e2) ==
                \E i \in sent[e1] :
                    /\ IsSuccess(log[i].status)
                    /\ \A j \in sent[e2] : i < j
        IN  /\ log[MirrorStart].url = target /\ log[MirrorStart].method = "PUT"
            /\ Len(log) > MirrorStart => IsSuccess(log[MirrorStart].status)
            /\ \A e \in tree : sent[e] # {} =>
                /\ Cardinality(sent[e]) = 1
                \* the parent directory was created before
                /\ \A p \in tree : p.path = ButLast(e.path) => Before(p, e)
                \* a file comes after every subdirectory of its level
                /\ ~e.dir => \A d \in tree :
                     (d.dir /\ ButLast(d.path) = ButLast(e.path)) => Before(d, e)
                \* an entry below a subdirectory comes after every
                \* subdirectory of the levels above it
                /\ \A d \in tree :
                     (d.dir /\ Len(d.path) < Len(e.path)
                            /\ IsPrefix(ButLast(d.path), e.path)) => Before(d, e)

\* the mirror's request for an entry was sent
Sent(e) == \E i \in (MirrorStart + 1)..Len(log) : log[i].url = UrlOf(e)

\* a mirror that wrote a file below a subdirectory that has a sibling
\* directory
C3_Witness ==
    /\ InMirror /\ pc = "done"
    /\ \E e, d \in tree :
        /\ Len(e.path) = 2 /\ ~e.dir /\ Sent(e)
        /\ d.dir /\ Len(d.path) = 1 /\ d.path # ButLast(e.path) /\ Sent(d)

\* the names the device holds directly in the directory at path dirpath
RemoteNames(dirpath) ==
    {n \in Names \cup {"old"} : \E e \in remote :
        e.path = dirpath \o <<n>> \/ e.path = dirpath \o <<n, SEP>>}

\* the names of the tree directly in the directory at relative path r
LocalNames(r) == DirsAt(tree, r) \cup FilesAt(tree, r)

\* the directories of the tree, the source itself included
Levels == {<<>>} \cup {e.path : e \in {x \in tree : x.dir}}

\* the path on the device of the directory the upload first created for the tree
TopDir == PathOf(log[1].url)

\* C4: after an upload of a directory tree onto an empty device that ended
\* with every request succeeding, the remote directory created for the tree
\* and each of its subdirectories hold exactly the names of the same level of
\* the tree.
C4_MirrorEqualsTree ==
    (pc = "done" /\ isdir /\ remote0 = {} /\ op \in {"install_dir_http", "upload_file"}) =>
        \A r \in Levels :
            RemoteNames(TopDir \o rel_path(r) \o (IF r = <<>> THEN <<>> ELSE <<SEP>>))
                = LocalNames(r)

\* C4 for install_dir_http called by itself
C4_InstallDirAlone ==
    (pc = "done" /\ isdir /\ remote0 = {} /\ op = "install_dir_http") =>
        \A r \in Levels :
            RemoteNames(TopDir \o rel_path(r) \o (IF r = <<>> THEN <<>> ELSE <<SEP>>))
                = LocalNames(r)

\* C5: is_device_present never raises: whatever the answer to the version
\* request, the call returns a boolean.
C5_PresenceNeverRaises ==
    (op = "is_device_present" /\ pc # "idle") =>
        (pc = "returned" /\ ret.kind = "value" /\ ret.val \in BOOLEAN)

\* the call returned on every answer that is not a 4xx or 5xx response
C5_ReturnsUnlessErrorStatus ==
    (op = "is_device_present" /\ pc # "idle") =>
        IF resp.kind = "response" /\ ~IsSuccess(resp.status)
        THEN pc = "raised"
        ELSE pc = "returned" /\ ret.val \in BOOLEAN

\* the version-info response: a success response to the version request
VersionInfo == resp.kind = "response" /\ IsSuccess(resp.status)

\* C6: is_device_present returns true exactly when the version-info response
\* carries a web_api_version of at least 4; it returns false when the field
\* is absent, when it is below 4 and when the connection fails.
C6_PresenceIffVersion4 ==
    (op = "is_device_present" /\ pc # "idle") =>
        /\ (pc = "returned" /\ ret = Returned(TRUE)) <=>
             (VersionInfo /\ ~IsNone(resp.json, "web_api_version")
                          /\ resp.json.web_api_version >= 4)
        /\ resp.kind = "ConnectionError" => (pc = "returned" /\ ret = Returned(FALSE))
        /\ (VersionInfo /\ IsNone(resp.json, "web_api_version")) =>
             (pc = "returned" /\ ret = Returned(FALSE))
        /\ (VersionInfo /\ ~IsNone(resp.json, "web_api_version")
                        /\ resp.json.web_api_version < 4) =>
             (pc = "returned" /\ ret = Returned(FALSE))

\* a device that reports exactly version 4 is present
C6_Witness ==
    /\ op = "is_device_present" /\ pc = "returned"
    /\ VersionInfo
    /\ ~IsNone(resp.json, "web_api_version") /\ resp.json.web_api_version = 4
    /\ ret = Returned(TRUE)

\* the root listing has the three fields and is writable
Usable(json) ==
    /\ ~IsNone(json, "free")
    /\ ~IsNone(json, "block_size")
    /\ ~IsNone(json, "writable")
    /\ json.writable

\* C7: get_free_space returns a value exactly when the root listing has free,
\* block_size and writable with writable true, and the value is then
\* free * block_size, 0 when free is 0; when a field is missing or writable is
\* false it returns nothing and ends the process.
C7_FreeSpace ==
    (op = "get_free_space" /\ pc # "idle" /\ IsSuccess(resp.status)) =>
        /\ (pc = "returned") <=> Usable(resp.json)
        /\ pc = "returned" =>
             (ret.kind = "value" /\ ret.val = resp.json.free * resp.json.block_size)
        /\ ~Usable(resp.json) => (pc = "exit" /\ ret = NoRet)

\* a writable device with no free block: the value 0 is returned
C7_Witness ==
    /\ op = "get_free_space" /\ pc = "returned"
    /\ resp.json.free = 0 /\ resp.json.block_size = 512
    /\ ret = Returned(0)

\* C8: in the result of sorted_by_directory_then_alpha every directory comes
\* before every file, and the names of the directories and the names of the
\* files are each in ascending order by code point; ls_cli displays the
\* entries in that order.
C8_DirectoriesThenAlpha ==
    (op = "ls" /\ pc = "done") =>
        LET out == ret.val
        IN  /\ \A i, j \in 1..Len(out) : i < j =>
                /\ out[i].directory \/ ~out[j].directory
                /\ out[i].directory = out[j].directory =>
                     str_less(out[i].name, out[j].name)
            /\ \A i \in 1..Len(out) : \E k \in 1..Len(resp.files) : out[i] = resp.files[k]
            /\ Len(echoed) = Len(out) + 3
            /\ \A i \in 1..Len(out) : echoed[i + 3][3] = out[i].name

\* the listing b (file), A (directory), a (file) comes out as A, a, b
C8_Witness ==
    /\ op = "ls" /\ pc = "done"
    /\ Len(resp.files) = 3
    /\ resp.files[1].name = <<98>> /\ ~resp.files[1].directory
    /\ resp.files[2].name = <<65>> /\ resp.files[2].directory
    /\ resp.files[3].name = <<97>> /\ ~resp.files[3].directory
    /\ [i \in 1..Len(ret.val) |-> ret.val[i].name] = <<<<65>>, <<97>>, <<98>>>>

\* the upload of the local file succeeded and the download, the next request,
\* asks for the remote name the file was stored under: the path below fs/ of
\* the upload's url, lib/<file name> for upload_file
RoundTrip ==
    /\ Len(log) = 2
    /\ log[1].method = "PUT" /\ IsSuccess(log[1].status)
    /\ log[2].method = "GET"
    /\ <<SEP, "fs", SEP>> \o args.target_file = PathOf(log[1].url)

\* C9: a local file of bytes B, uploaded with every request succeeding and
\* then downloaded under the same remote name, gives a local file of exactly
\* the bytes B, named after the last segment of the remote name.
C9_RoundTrip ==
    RoundTrip =>
        /\ log[2].status # 404
        /\ IsSuccess(log[2].status) =>
            /\ pc = "downloaded"
            /\ \E f \in written :
                /\ f.path = local_path(args.target_file, args.location_to_paste)
                /\ f.data = data

\* a file of two different bytes came back as it was
C9_Witness ==
    /\ RoundTrip /\ pc = "downloaded" /\ IsSuccess(log[2].status)
    /\ data = <<0, 255>>
    /\ \E f \in written : f.data = <<0, 255>>

\* the strings displayed or logged so far
Shown == Range(echoed) \cup Range(logged)

\* C10: the device credential appears in no string the program logs or
\* displays, the device location reported on startup included.
C10_CredentialNeverShown ==
    (op \in {"main", "download_file"} /\ args.cmd # "none" /\ password # NoPassword) =>
        \A m \in Shown : password \notin Range(m)

\* ---------------------------------------------------------------- C11
\* the requests of an update are one delete of the module's remote path, then
\* uploads only, the first of them after the delete was answered with success
DeleteThenUpload ==
    log # <<>> =>
        /\ log[1].method = "DELETE"
        /\ log[1].url = req_url
        /\ Len(log) > 1 => IsSuccess(log[1].status)
        /\ \A i \in 2..Len(log) : log[i].method = "PUT"
        /\ ~IsSuccess(log[1].status) => Failed

NotFoundMsg(target_file) == target_file \o <<" was not found on the device">>

\* C12: download_file does not stop on a 404: when the read request is answered
\* with 404 it emits the warning and still writes the returned body to the
\* destination file, named by the final segment of the remote path, in the
\* supplied local directory or else the current working directory.
C12_NotFoundStillWrites ==
    (op = "download_file" /\ resp.kind = "response" /\ resp.status = 404) =>
        /\ pc = "downloaded"
        /\ NotFoundMsg(args.target_file) \in Range(echoed)
        /\ [path |-> local_path(args.target_file, args.location_to_paste),
            data |-> resp.content] \in written

\* what download_file does on a 404: it ends in the exception, with nothing
\* displayed and no file written
C12_NotFoundRaises ==
    (op = "download_file" /\ resp.kind = "response" /\ resp.status = 404) =>
        /\ pc = "raised"
        /\ NotFoundMsg(args.target_file) \notin Range(echoed)
        /\ written = {}

\* ---------------------------------------------------------------- C13
\* upload_file of a regular file
FileUpload == ~isdir /\ op = "upload_file"

\* the destination the caller gave, None for none
Destination == args.location_to_paste

\* the library default path joined with the file name, or the filesystem root
\* joined with the destination and the file name
UploadAddress(src, dest) ==
    IF dest = None
    THEN device_location \o <<SEP, "fs", SEP, "lib", SEP>> \o base_name(src)
    ELSE device_location \o <<SEP, "fs", SEP>>
            \o (IF Last(dest) = SEP THEN dest ELSE dest \o <<SEP>>)
            \o base_name(src)

\* C13: the upload of a regular file issues exactly one write request carrying
\* the full file content, addressed to the library default path joined with
\* the file name when no destination is given, and to the filesystem root
\* joined with the destination and the file name when one is given.
C13_OneWriteToDestination ==
    FileUpload =>
        /\ Len(log) <= 1
        /\ pc \in {"done", "exit", "raised"} => Len(log) = 1
        /\ \A i \in 1..Len(log) :
            /\ log[i].method = "PUT"
            /\ log[i].body = data
            /\ log[i].url = UploadAddress(source, Destination)

\* what the code does: one write of the full content, addressed to
\* install_target of the location install_file_http was given, the library
\* path whenever upload_file makes the call
C13_OneWriteToInstallTarget ==
    (~isdir /\ op \in {"upload_file", "install_file_http"}) =>
        /\ Len(log) <= 1
        /\ pc \in {"done", "exit", "raised"} => Len(log) = 1
        /\ \A i \in 1..Len(log) :
            /\ log[i].method = "PUT"
            /\ log[i].body = data
            /\ log[i].url = install_target(source, location)
            /\ op = "upload_file" =>
                 log[i].url = UploadAddress(source, None)
            /\ (op = "install_file_http" /\ (location = None \/ Last(location) = SEP)) =>
                 log[i].url = UploadAddress(source, location)

\* ===================================================== the remote paths
\* The paths install_dir_http builds, for any source and location: the source
\* may end in a separator or in two.
PathSources == Sources \cup {<<"mod", SEP, SEP>>}

\* the directories os.walk visits, relative to the source
RelRoots == UNION {[1..n -> Names] : n \in 0..MaxDepth}

\* install_dir_http(source, location) builds the top level target
build_target ==
    /\ pc = "idle"
    /\ \E src \in PathSources, loc \in Locations :
        /\ source' = src
        /\ location' = loc
        /\ target' = dir_target(src, loc)
        /\ req_url' = dir_target(src, loc)
    /\ op' = "target"
    /\ pc' = "walk"
    /\ UNCHANGED <<local_vars, read_vars, root, dirs_todo, dirs_done, files_todo,
                   stack, log, remote, echoed>>

\* for name in dirs: path_to_create of a subdirectory of the directory at r
build_dir_path ==
    /\ pc = "walk"
    /\ \E r \in RelRoots, name \in Names :
        /\ root' = r
        /\ req_url' = dir_to_create(target, r, name)
    /\ op' = "dir"
    /\ UNCHANGED <<local_vars, read_vars, pc, source, location, target, dirs_todo,
                   dirs_done, files_todo, stack, log, remote, echoed>>

\* for name in files: path_to_create of a file of the directory at r
build_file_path ==
    /\ pc = "walk"
    /\ \E r \in RelRoots, name \in Names :
        /\ root' = r
        /\ req_url' = path_to_create(target, r, name)
    /\ op' = "file"
    /\ UNCHANGED <<local_vars, read_vars, pc, source, location, target, dirs_todo,
                   dirs_done, files_todo, stack, log, remote, echoed>>

InitPaths ==
    /\ Constructed
    /\ Idle
    /\ isdir = TRUE
    /\ tree = {}
    /\ data = <<>>
    /\ remote = {}
    /\ remote0 = {}

NextPaths ==
    \/ build_target
    \/ build_dir_path
    \/ build_file_path

SpecPaths == InitPaths /\ [][NextPaths]_vars

\* ---------------------------------------------------------------- C14
\* the path ends in one separator and no more
EndsInOneSep(u) ==
    /\ Len(u) >= 2
    /\ u[Len(u)] = SEP
    /\ u[Len(u) - 1] # SEP

\* C14: every remote path built for a directory, the top level target and each
\* subdirectory, ends in exactly one separator, also when the path being
\* completed already ends in one, and every remote path built for a file write
\* does not end in a separator.
C14_DirectoryPathsEndInOneSep ==
    /\ op \in {"target", "dir"} => EndsInOneSep(req_url)
    /\ op = "file" => Last(req_url) # SEP

\* the source names a directory: its last segment, or the one before an empty
\* last segment, is not empty
NamedSource == base_name(source) # <<>>

\* what the code does: the separator is always appended, so the paths are as
\* C14 says whenever the path being completed does not end in a separator
\* already, which is so for every source that names a directory
C14_SepAlwaysAppended ==
    /\ op = "target" => req_url = install_target(source, location) \o <<SEP>>
    /\ op = "dir" => req_url = path_to_create(target, root, Last(ButLast(req_url))) \o <<SEP>>
    /\ (op \in {"target", "dir"} /\ NamedSource) => EndsInOneSep(req_url)
    /\ op = "dir" => EndsInOneSep(req_url)
    /\ op = "file" => Last(req_url) # SEP

\* ====================================================== the existence check
\* The segments of a file name: a plain name, the parent directory, the
\* directory itself, and the empty segment a leading, trailing or doubled
\* separator makes.
NameSegs == {<<"a">>, <<"b">>, <<"..">>, <<".">>, <<>>}

\* The names a caller asks for.  A name that begins with two separators is a
\* network location to urljoin and is left out.
FileNames ==
    {n \in {JoinSegs(segs) : segs \in UNION {[1..k -> NameSegs] : k \in 1..MaxSegs}} :
        ~(Len(n) >= 2 /\ n[1] = SEP /\ n[2] = SEP)}

\* urljoin(urljoin(self.device_location, "fs/"), filename)
get_file_path(filename) == urljoin(urljoin(device_location, <<"fs", SEP>>), filename)

\* WebBackend.file_exists(filepath): True for a 200, False for any other status
file_exists ==
    /\ pc = "idle"
    /\ \E filepath \in FileNames, status \in ReadStatuses :
        /\ args' = [cmd |-> "file_exists", filepath |-> filepath]
        /\ req_url' = get_file_path(filepath)
        /\ log' = Append(log, Request("GET", get_file_path(filepath), <<>>, status))
        /\ resp' = [kind |-> "response", status |-> status]
        /\ ret' = Returned(status = 200)
    /\ op' = "file_exists"
    /\ pc' = "returned"
    /\ UNCHANGED <<local_vars, walk_vars, source, location, remote, echoed, logged,
                   written>>

InitExists ==
    /\ Constructed
    /\ Idle
    /\ isdir = FALSE
    /\ tree = {}
    /\ data = <<>>
    /\ remote = {}
    /\ remote0 = {}

NextExists == file_exists

SpecExists == InitExists /\ [][NextExists]_vars

\* ---------------------------------------------------------------- C15
\* the url is the device's filesystem prefix fs/ or lies below it
UnderFs(u) == IsPrefix(device_location \o <<SEP, "fs", SEP>>, u)

\* C15: for every name given to get_file_path, and so to file_exists, also one
\* that begins with a separator or holds parent-directory segments, the
\* resulting remote url stays under the device's filesystem prefix fs/.
C15_StaysUnderFs ==
    op = "file_exists" =>
        /\ UnderFs(req_url)
        /\ UnderFs(log[1].url)

\* the name begins with no separator and climbs to no parent directory
PlainName(n) ==
    /\ n # <<>> => n[1] # SEP
    /\ \A i \in 1..Len(n) : n[i] # ".."

\* what the code does: the url of a plain name is under fs/, the url of a name
\* that begins with a separator is that name at the root of the device
C15_PlainNamesStayUnderFs ==
    op = "file_exists" =>
        /\ log[1].url = req_url
        /\ PlainName(args.filepath) => UnderFs(req_url)
        /\ (args.filepath # <<>> /\ args.filepath[1] = SEP
              /\ \A i \in 1..Len(args.filepath) : args.filepath[i] \notin {"..", "."})
             => req_url = device_location \o args.filepath

\* ---------------------------------------------------------------- C16
\* how many times the entry e occurs in the list l
Occurrences(l, e) == Cardinality({i \in 1..Len(l) : l[i] = e})

\* l2 holds every entry of l1 as many times as l1 does, and nothing else
IsPermutation(l1, l2) ==
    /\ Len(l1) = Len(l2)
    /\ \A e \in ListEntries : Occurrences(l1, e) = Occurrences(l2, e)

\* C16: sorted_by_directory_then_alpha returns a permutation of its input: for
\* every listing, also one where two entries share a name, the result has the
\* length of the input and holds every input entry exactly once.
C16_SortIsPermutation ==
    (op = "ls" /\ pc = "done") => IsPermutation(resp.files, ret.val)

\* no two directories and no two files of the listing have the same name
UniqueNames(l) ==
    \A i, j \in 1..Len(l) :
        (i # j /\ l[i].directory = l[j].directory) => l[i].name # l[j].name

\* what the code does: a permutation exactly when no two entries of the same
\* kind share a name; of such entries only the last one is returned
C16_PermutationIffUniqueNames ==
    (op = "ls" /\ pc = "done") =>
        /\ IsPermutation(resp.files, ret.val) <=> UniqueNames(resp.files)
        /\ UniqueNames(ret.val)
        /\ LET LastOfItsName(k) ==
                    ~\E j \in (k + 1)..Len(resp.files) :
                        /\ resp.files[j].name = resp.files[k].name
                        /\ resp.files[j].directory = resp.files[k].directory
           IN  /\ \A k \in 1..Len(resp.files) : LastOfItsName(k) =>
                     \E i \in 1..Len(ret.val) : ret.val[i] = resp.files[k]
               /\ \A i \in 1..Len(ret.val) : \E k \in 1..Len(resp.files) :
                     LastOfItsName(k) /\ ret.val[i] = resp.files[k]

====
